---------------------------- MODULE Spec2Model ----------------------------
(***************************************************************************)
(* The interactive map viewport (MapViz, src/unnamed/part_002) and the     *)
(* part of its host (Dashboard.tsx) that owns the selection.               *)
(*                                                                         *)
(* Numbers.  Raw pointer positions are whole pixels.  Planar points and    *)
(* the translate of the zoom transform are fixed-point with PU units per   *)
(* pixel; the scale of the zoom transform is fixed-point with SU units per *)
(* 1.0.  Angles (lon, lat) are counted in the projection's own unit: one   *)
(* angle unit is the angle that the projection of line 68-70 (scale        *)
(* width/6.3 pixels per radian) maps to 1/PU pixel, so that project and    *)
(* invert are exact on the grid.  Division rounds down.                    *)
(***************************************************************************)
EXTENDS Integers, Sequences, FiniteSets, TLC

width  == 800
height == 600
PU == 120
SU == 120

Null == [null |-> TRUE]

Pt(x, y) == [x |-> x, y |-> y]

\* The pointer positions the environment delivers (d3.pointer(event)).
Pts ==
    { Pt(400, 300), Pt(404, 304), Pt(405, 305), Pt(406, 306),
      Pt(404, 306), Pt(406, 300), Pt(100, 100), Pt(300, 300) }

Abs(n) == IF n < 0 THEN -n ELSE n
Min(a, b) == IF a < b THEN a ELSE b
Max(a, b) == IF a > b THEN a ELSE b

(***************************************************************************)
(* GeoProjection: d3.geoEquirectangular().scale(width / 6.3)               *)
(*                  .translate([width / 2, height / 2])                    *)
(***************************************************************************)
\* pi radians in angle units: pi * (width / 6.3) * PU, with pi = 355/113.
HalfTurn == (355 * width * PU * 10) \div (113 * 63)

\* d3's rotation step brings a longitude outside [-pi, pi] back into it.
WrapLon(l) ==
    IF l > HalfTurn THEN l - 2 * HalfTurn
    ELSE IF l < -HalfTurn THEN l + 2 * HalfTurn
    ELSE l

\* projection([lon, lat]): longitude centred, latitude flipped.
projection(lon, lat) ==
    Pt((width \div 2) * PU + lon, (height \div 2) * PU - lat)

\* projection.invert([x, y]) -> [lon, lat]; the equirectangular inverse is
\* total, it never yields null.
projectionInvert(q) ==
    [lon |-> WrapLon(q.x - (width \div 2) * PU),
     lat |-> (height \div 2) * PU - q.y]

(***************************************************************************)
(* ViewportTransform: the d3 zoom transform {k, x, y} kept on the svg node *)
(***************************************************************************)
zoomIdentity == [k |-> SU, x |-> 0, y |-> 0]

\* transform.invert([x, y]) of a raw pixel: ((x - t.x) / k, (y - t.y) / k).
transformInvert(t, p) ==
    Pt(((p.x * PU - t.x) * SU) \div t.k, ((p.y * PU - t.y) * SU) \div t.k)

\* transform.apply of a planar point, in 1/PU pixels.
transformApply(t, q) ==
    Pt((q.x * t.k) \div SU + t.x, (q.y * t.k) \div SU + t.y)


RECURSIVE isqrtIter(_, _, _)
isqrtIter(n, lo, hi) ==
    IF lo >= hi THEN lo
    ELSE LET mid == (lo + hi + 1) \div 2
         IN  IF mid * mid <= n THEN isqrtIter(n, mid, hi)
             ELSE isqrtIter(n, lo, mid - 1)

\* Math.sqrt, rounded down.
isqrt(n) == isqrtIter(n, 0, Min(n, 46340))

(***************************************************************************)
(* zoom = d3.zoom().scaleExtent([1, 15]) (line 82-83).  A transition       *)
(* svg.transition().duration(750).call(zoom.transform, b) (line 47-55,     *)
(* 280-284) sets the transform frame by frame along d3.interpolateZoom     *)
(* (the default of zoom.interpolate) from the transform a found when the   *)
(* transition starts to b; its last frame sets b itself.  zoom.transform   *)
(* does not apply scaleExtent.                                             *)
(***************************************************************************)
scaleExtentMin == 1
scaleExtentMax == 15

ClampK(k) == Max(scaleExtentMin * SU, Min(scaleExtentMax * SU, k))

\* centroid of the zoom extent [[0, 0], [width, height]]: the fixed point
\* of transition tweens.
extentCentre == Pt(width \div 2, height \div 2)

\* The view of transform t as interpolateZoom sees it, in whole pixels:
\* centre t.invert(p) and width w / t.k with w = max(width, height).
ViewOf(t) ==
    LET c == transformInvert(t, extentCentre)
    IN  [ux |-> c.x \div PU, uy |-> c.y \div PU,
         w  |-> (Max(width, height) * SU) \div t.k]

\* With rho^2 = 2, interpolateZoom's path from view a to view b has
\* b0 = (w1^2 - w0^2 + 4 d2) / (4 w0 d1) and
\* b1 = (w1^2 - w0^2 - 4 d2) / (4 w1 d1); the width w0 cosh(r0) /
\* cosh(rho s + r0) grows above both w0 and w1 on the way exactly when
\* b0 > 0 > b1.
HasApex(a, b) ==
    LET va == ViewOf(a)
        vb == ViewOf(b)
        d2 == (vb.ux - va.ux) * (vb.ux - va.ux)
              + (vb.uy - va.uy) * (vb.uy - va.uy)
    IN  4 * d2 > Abs(vb.w * vb.w - va.w * va.w)

\* The frame where the path is widest (rho s + r0 = 0): width
\* w0 sqrt(1 + b0^2), centre u0 + (w0 b0 / (2 d1)) (u1 - u0), and the
\* transform new Transform(k, p.x - cx k, p.y - cy k) with k = w / width.
ApexFrame(a, b) ==
    LET va == ViewOf(a)
        vb == ViewOf(b)
        dx == vb.ux - va.ux
        dy == vb.uy - va.uy
        d2 == dx * dx + dy * dy
        A  == vb.w * vb.w - va.w * va.w + 4 * d2
        fm == (A * 125) \div d2                \* 1000 * A / (8 d2)
        cx == va.ux + (fm * dx) \div 1000
        cy == va.uy + (fm * dy) \div 1000
        e  == A \div (4 * isqrt(d2))           \* w0 b0
        wm == isqrt(va.w * va.w + e * e)
        k  == (Max(width, height) * SU) \div wm
    IN  [k |-> k,
         x |-> extentCentre.x * PU - ((cx * k) \div SU) * PU,
         y |-> extentCentre.y * PU - ((cy * k) \div SU) * PU]

\* d3.zoomIdentity.translate(width / 2, height / 2).scale(k)
\*               .translate(-x, -y), [x, y] = projection([lon, lat])
centerTarget(targetLat, targetLon, scale) ==
    LET q == projection(targetLon, targetLat)
    IN  [k |-> scale,
         x |-> (width \div 2) * PU - (scale * q.x) \div SU,
         y |-> (height \div 2) * PU - (scale * q.y) \div SU]

\* The wheel handler of d3-zoom: scale by the factor, clamped to
\* scaleExtent, keeping the planar point under the pointer p in place.
WheelTransform(t, p, k) ==
    LET p1 == transformInvert(t, p)
    IN  [k |-> k,
         x |-> p.x * PU - (p1.x * k) \div SU,
         y |-> p.y * PU - (p1.y * k) \div SU]

\* The drag handler of d3-zoom: the planar point grabbed at mousedown
\* (anchor) stays under the pointer p.
PanTransform(t, p, anchor) ==
    [k |-> t.k,
     x |-> p.x * PU - (anchor.x * t.k) \div SU,
     y |-> p.y * PU - (anchor.y * t.k) \div SU]

(***************************************************************************)
(* The environment's inputs                                                *)
(***************************************************************************)
\* The rendered country features and d3.geoCentroid of each, [lon, lat].
Features == {"A", "B"}
NoFeat == "none"
geoCentroid(f) ==
    IF f = "A" THEN [lon |-> 100 * PU, lat |-> 50 * PU]
    ELSE [lon |-> 390 * PU, lat |-> -(90 * PU)]

\* How many wheel steps and drag-pan moves a run may hold.
MaxZoomOps == 1
MaxFrames == 1
MaxCalls == 1

\* Who may ask for a transition: resetZoom, the click handler of a feature.
Asks ==
    {[by |-> "reset"]}
        \cup {[by |-> "recenter", feature |-> f] : f \in Features}

\* event.button of a mousedown: primary, secondary.
Buttons == {0, 2}

\* One wheel step doubles or halves the scale (Math.pow(2, wheelDelta)).
WheelDirs == {"in", "out"}
WheelK(k, dir) == ClampK(IF dir = "in" THEN 2 * k ELSE k \div 2)

\* Dashboard's initial selection, useState(20.5937), useState(78.9629), in
\* angle units: degrees * (pi / 180) * (width / 6.3) * PU.
DegToAngle(tenThousandths) ==
    ((((tenThousandths * 355) \div 113) \div 1000) * ((width * PU) \div 63))
        \div 180
DefaultLat == DegToAngle(205937)
DefaultLon == DegToAngle(789629)

(***************************************************************************)
(* State                                                                   *)
(***************************************************************************)
VARIABLES
    mode,          \* useState<'select' | 'pan'>                  (line 25)
    isDrawing,     \* useState(false)                             (line 24)
    startPoint,    \* useState<[number, number] | null>           (line 26)
    currentPoint,  \*                                             (line 27)
    h,             \* what the bound handlers closed over when the main
                   \* effect last ran: mode, isDrawing, startPoint,
                   \* currentPoint
    zt,            \* d3.zoomTransform(svg.node()): {k, x, y}
    anim,          \* the transition on the svg node
    feat,          \* the features of the current effect run: "pending"
                   \* (fetch not resolved, no path in the svg) | "loaded"
    sel,           \* Dashboard's lat, lon, bbox
    overlay,       \* what the .selections group of the svg holds
    btn,           \* the mouse button: "up" | "down" | "click" (released, its
                   \* click event about to be dispatched on a feature)
    downFeat,      \* the feature under the mousedown, while its path element
                   \* is still in the document and a click may follow
    pan,           \* the drag gesture of d3-zoom
    zoomOps,       \* wheel steps and drag-pan moves so far
    frames,        \* intermediate frames of transitions so far
    nCalls,        \* onLocationSelect calls so far
    asked,         \* history: who asked for the transition that runs
    gest,          \* history: the physical gesture under way
    emit,          \* history: what the last step did: the gesture it ended,
                   \* the transition it settled or interrupted, the
                   \* mousemove it handled
    client,        \* clientWidth, clientHeight of the svg
    projFor,       \* the size the projection of the current effect run was
                   \* built from (line 61-71)
    mapRoot,       \* the map-root group of the current effect run: its
                   \* transform attribute, and which emitters of zoom events
                   \* (a transition, a drag) belong to the zoom behaviour of an
                   \* earlier run, whose listener writes to the group of that
                   \* run
    loads,         \* Dashboard: the loadData calls in flight
    data,          \* Dashboard: whose stats are displayed: "none", those of
                   \* a load for the lat and lon held now ("latest"), those
                   \* of a load for an earlier selection ("stale")
    loading        \* Dashboard: useState(false), set by loadData

\* hoverCoords (line 28) is written by handleMouseMove and read by the
\* render alone (line 360): it is no part of this state.

vars == << mode, isDrawing, startPoint, currentPoint, h, zt, anim, feat,
           sel, overlay, btn, downFeat, pan, zoomOps, frames, nCalls, asked,
           gest, emit, client, projFor, mapRoot, loads, data, loading >>

Closure(m, d, s, c) ==
    [mode |-> m, isDrawing |-> d, startPoint |-> s, currentPoint |-> c]

NoPan == [on |-> FALSE]
NoAnim == [state |-> "idle"]
NoAsk == [by |-> "none"]
NoEvent == [kind |-> "none"]
NoGest == [downMode |-> "none", onMap |-> FALSE, onFeat |-> FALSE,
           switched |-> FALSE, calls |-> << >>]
Quiet == [gesture |-> Null, anim |-> NoEvent, move |-> Null]

\* The gesture a mousedown begins.
Gesture(m, onMap, onFeat) ==
    [downMode |-> m, onMap |-> onMap, onFeat |-> onFeat,
     switched |-> FALSE, calls |-> << >>]

\* An empty .selections group.
NoOverlay == [rect |-> Null, marker |-> Null]

\* Fault: the marker is drawn under the rectangle as well.
renderOverlaysBoth(s) ==
    IF s.bbox # Null
    THEN LET p1 == projection(s.bbox.lonMin, s.bbox.latMax)
             p2 == projection(s.bbox.lonMax, s.bbox.latMin)
         IN  [rect |-> [x |-> Min(p1.x, p2.x), y |-> Min(p1.y, p2.y),
                        width  |-> Abs(p2.x - p1.x),
                        height |-> Abs(p2.y - p1.y)],
              marker |-> projection(s.lon, s.lat)]
    ELSE [rect |-> Null, marker |-> projection(s.lon, s.lat)]

\* renderOverlays (line 234-276) under the props s = (lat, lon, bbox): the
\* group emptied, then a rect for a bbox, the marker's circles otherwise.
renderOverlays(s) ==
    IF s.bbox # Null
    THEN LET p1 == projection(s.bbox.lonMin, s.bbox.latMax)
             p2 == projection(s.bbox.lonMax, s.bbox.latMin)
         IN  IF p1 # Null /\ p2 # Null
             THEN [rect |-> [x |-> Min(p1.x, p2.x), y |-> Min(p1.y, p2.y),
                             width  |-> Abs(p2.x - p1.x),
                             height |-> Abs(p2.y - p1.y)],
                   marker |-> Null]
             ELSE NoOverlay
    ELSE LET coords == projection(s.lon, s.lat)
         IN  IF coords # Null THEN [rect |-> Null, marker |-> coords]
             ELSE NoOverlay

\* The deps [lat, lon, bbox] of the overlay effect (line 232) differ between
\* props s and r: a bbox object is never the one of the render before.
propsChanged(s, r) ==
    r.lat # s.lat \/ r.lon # s.lon \/ r.bbox # Null \/ s.bbox # Null

\* What the .selections group holds after a render that re-ran the main
\* effect with props r, s being the props of the render before: the new
\* group is empty unless the overlay effect ran after it.
afterRender(s, r) ==
    IF propsChanged(s, r) THEN renderOverlays(r) ELSE NoOverlay

\* Fault: setBbox left out of the callback.
onLocationSelectKeepsBbox(s, la, lo, bb) ==
    [lat |-> la, lon |-> lo, bbox |-> s.bbox]

\* Dashboard's onLocationSelect (Dashboard.tsx line 136): setLat(la);
\* setLon(lo); setBbox(bb), applied in one render.
onLocationSelect(s, la, lo, bb) ==
    [lat |-> la, lon |-> lo, bbox |-> bb]

\* What resolveGeospatialQuery may resolve to (Dashboard.tsx line 67-68): a
\* point, a region, a region whose corners come in the other order.
SearchResults ==
    { [lat |-> 10 * PU, lon |-> 20 * PU, bbox |-> Null],
      [lat |-> 30 * PU, lon |-> 40 * PU,
       bbox |-> [lonMin |-> 30 * PU, lonMax |-> 50 * PU,
                 latMin |-> 20 * PU, latMax |-> 40 * PU]],
      [lat |-> 30 * PU, lon |-> 40 * PU,
       bbox |-> [lonMin |-> 50 * PU, lonMax |-> 30 * PU,
                 latMin |-> 40 * PU, latMax |-> 20 * PU]] }

\* The sizes the container is measured at: the one of the mount, and half
\* of it.
ClientSizes == { [w |-> width, h |-> height], [w |-> 400, h |-> 300] }

\* The map-root group a run of the main effect appends (line 65, 76): it has
\* no transform attribute, so it is drawn under the identity.  A transition
\* a or a drag p under way belongs to the zoom behaviour of the run before.
freshRoot(a, p) ==
    [transform |-> zoomIdentity,
     detached |-> (IF a.state # "idle" THEN {"transition"} ELSE {})
                  \cup (IF p.on THEN {"drag"} ELSE {})]

\* The zoom listener (line 84-86) on a zoom event of emitter who with
\* transform t: it writes to the group of the run that made the listener.
zoomed(r, who, t) ==
    IF who \in r.detached THEN r ELSE [r EXCEPT !.transform = t]

\* A loadData call (Dashboard.tsx line 33-60) in flight: whether it was made
\* for the lat and lon Dashboard holds now, and what it awaits, its fetchers
\* ("fetch") or getResearchIntelligence ("intel").  Calls that agree in both
\* are one element of loads.
Load(latest, phase) == [latest |-> latest, phase |-> phase]

\* The deps [lat, lon] of Dashboard's effect (Dashboard.tsx line 62) differ
\* between props s and r.
loadStarts(s, r) == r.lat # s.lat \/ r.lon # s.lon

\* The loads in flight after a render with props r that follows one with
\* props s: when lat or lon changed, the calls in flight were made for an
\* earlier selection, and the effect makes a call for this one.
loadData(L, s, r) ==
    IF loadStarts(s, r)
    THEN {Load(FALSE, l.phase) : l \in L} \cup {Load(TRUE, "fetch")}
    ELSE L

\* What data holds after that render: the stats of a load made for an
\* earlier selection ("stale") once lat or lon changed.
dataAfter(d, s, r) ==
    IF loadStarts(s, r) /\ d = "latest" THEN "stale" ELSE d

Init ==
    /\ mode = "select"
    /\ isDrawing = FALSE
    /\ startPoint = Null
    /\ currentPoint = Null
    /\ h = Closure("select", FALSE, Null, Null)
    /\ zt = zoomIdentity
    /\ anim = NoAnim
    /\ feat = "pending"
    /\ sel = [lat |-> DefaultLat, lon |-> DefaultLon, bbox |-> Null]
    /\ overlay = renderOverlays(sel)
    /\ btn = "up"
    /\ downFeat = NoFeat
    /\ pan = NoPan
    /\ zoomOps = 0
    /\ frames = 0
    /\ nCalls = 0
    /\ asked = NoAsk
    /\ gest = NoGest
    /\ emit = Quiet
    /\ client = [w |-> width, h |-> height]
    /\ projFor = client
    /\ mapRoot = freshRoot(NoAnim, NoPan)
    /\ loads = {Load(TRUE, "fetch")}
    /\ data = "none"
    /\ loading = TRUE

(***************************************************************************)
(* The handlers' pure parts                                                *)
(***************************************************************************)
\* Fault: handleMouseUp leaves the session as it is.
handleMouseUpKeeps(c) == c

\* The end of handleMouseUp (line 212-214): setIsDrawing(false),
\* setStartPoint(null), setCurrentPoint(null).
handleMouseUpClears(c) == Closure(c.mode, FALSE, Null, Null)

\* Fault: the guard of handleMouseDown left out.
handleMouseDownAlways(m) == TRUE

\* handleMouseDown's guard: if (mode !== 'select') return;
handleMouseDownArms(m) == m = "select"

\* Fault: || for &&.
isPointClickOr(dx, dy) == dx < 5 \/ dy < 5

\* dx < 5 && dy < 5
isPointClick(dx, dy) == dx < 5 /\ dy < 5

\* Fault: the corners taken as they come, start first.
newBboxUnsorted(coordsStart, coordsEnd) ==
    [lonMin |-> coordsStart.lon, lonMax |-> coordsEnd.lon,
     latMin |-> coordsStart.lat, latMax |-> coordsEnd.lat]

\* const newBbox = { lonMin: Math.min(...), lonMax: Math.max(...), ... }
newBbox(coordsStart, coordsEnd) ==
    [lonMin |-> Min(coordsStart.lon, coordsEnd.lon),
     lonMax |-> Max(coordsStart.lon, coordsEnd.lon),
     latMin |-> Min(coordsStart.lat, coordsEnd.lat),
     latMax |-> Max(coordsStart.lat, coordsEnd.lat)]

\* handleMouseUp's guard: if (!isDrawing || !startPoint || !currentPoint)
\* return;
handleMouseUpReturns(c) ==
    ~c.isDrawing \/ c.startPoint = Null \/ c.currentPoint = Null

\* Fault: a tap commits the start point of the session.
handleMouseUpCallFromStart(c, t) ==
    LET start == transformInvert(t, c.startPoint)
        end   == transformInvert(t, c.currentPoint)
        dx    == Abs(c.currentPoint.x - c.startPoint.x)
        dy    == Abs(c.currentPoint.y - c.startPoint.y)
        coordsStart == projectionInvert(start)
        coordsEnd   == projectionInvert(end)
    IN  IF dx < 5 /\ dy < 5
        THEN [lat |-> coordsStart.lat, lon |-> coordsStart.lon,
              bbox |-> Null]
        ELSE [lat |-> (Min(coordsStart.lat, coordsEnd.lat)
                       + Max(coordsStart.lat, coordsEnd.lat)) \div 2,
              lon |-> (Min(coordsStart.lon, coordsEnd.lon)
                       + Max(coordsStart.lon, coordsEnd.lon)) \div 2,
              bbox |-> [lonMin |-> Min(coordsStart.lon, coordsEnd.lon),
                        lonMax |-> Max(coordsStart.lon, coordsEnd.lon),
                        latMin |-> Min(coordsStart.lat, coordsEnd.lat),
                        latMax |-> Max(coordsStart.lat, coordsEnd.lat)]]

\* Fault: a drag passes its end corner as the selected point.
handleMouseUpCallEndAsCentre(c, t) ==
    LET r  == handleMouseUpCallFromStart(c, t)
        e  == projectionInvert(transformInvert(t, c.currentPoint))
        dx == Abs(c.currentPoint.x - c.startPoint.x)
        dy == Abs(c.currentPoint.y - c.startPoint.y)
    IN  IF dx < 5 /\ dy < 5
        THEN [lat |-> e.lat, lon |-> e.lon, bbox |-> Null]
        ELSE [lat |-> e.lat, lon |-> e.lon, bbox |-> r.bbox]

\* The arguments handleMouseUp passes to onLocationSelect under closure c
\* and transform t, or Null when it calls nothing.
handleMouseUpCall(c, t) ==
    LET start == transformInvert(t, c.startPoint)
        end   == transformInvert(t, c.currentPoint)
        dx    == Abs(c.currentPoint.x - c.startPoint.x)
        dy    == Abs(c.currentPoint.y - c.startPoint.y)
        coordsStart == projectionInvert(start)
        coordsEnd   == projectionInvert(end)
    IN  IF coordsStart # Null /\ coordsEnd # Null
        THEN IF isPointClick(dx, dy)
             THEN [lat |-> coordsEnd.lat, lon |-> coordsEnd.lon,
                   bbox |-> Null]
             ELSE LET b == newBbox(coordsStart, coordsEnd)
                  IN  [lat |-> (b.latMin + b.latMax) \div 2,
                       lon |-> (b.lonMin + b.lonMax) \div 2,
                       bbox |-> b]
        ELSE Null

\* handleMouseMove: geo = projection.invert(transform.invert([x, y]));
\* if (geo) setHoverCoords([geo[1], geo[0]]).  Null: no call.
hoverOf(t, p) ==
    LET geo == projectionInvert(transformInvert(t, p))
    IN  IF geo # Null THEN [lat |-> geo.lat, lon |-> geo.lon] ELSE Null

\* The country click handler's call: onLocationSelect(cLat, cLon, null).
clickCall(f) ==
    [lat |-> geoCentroid(f).lat, lon |-> geoCentroid(f).lon, bbox |-> Null]

\* centerOnCoords(targetLat, targetLon, scale): the target of the
\* transition; scale 0 stands for an absent scale (scale || current k).
centerOnCoords(t, targetLat, targetLon, scale) ==
    centerTarget(targetLat, targetLon,
                 IF scale = 0 THEN t.k ELSE scale * SU)

\* Fault: the click handler leaves the scale out.
clickTargetNoScale(t, f) ==
    centerOnCoords(t, geoCentroid(f).lat, geoCentroid(f).lon, 0)

\* centerOnCoords(cLat, cLon, 4) of the click handler.
clickTarget(t, f) ==
    centerOnCoords(t, geoCentroid(f).lat, geoCentroid(f).lon, 4)

\* The target of the transition asked for by a: resetZoom's
\* d3.zoomIdentity, the click handler's centerOnCoords(cLat, cLon, 4).
askedTarget(a) ==
    IF a.by = "reset" THEN zoomIdentity
    ELSE clickTarget(zoomIdentity, a.feature)

\* Fault: the effect keeps the paths of the run before.
afterRemoveKeeps(f) == f

\* svg.selectAll("*").remove() at the head of the main effect: the path
\* element f that was under the pointer leaves the document.
afterRemove(f) == NoFeat

\* Fault: a transition under way is left to run, the new one dropped.
transitionStartKeepsFirst(a, t, target) ==
    IF a.state # "idle" THEN a
    ELSE [state |-> "start", from |-> t, target |-> target, over |-> Null]

\* svg.transition()...call(zoom.transform, target): the new transition
\* starts from the current transform t and ends the transition under way
\* (over: the target of the transition it supersedes, for the history).
transitionStart(a, t, target) ==
    [state |-> "start", from |-> t, target |-> target,
     over  |-> IF a.state # "idle" THEN a.target ELSE Null]

\* interrupt(this) of d3-zoom's wheel and mousedown handlers.
interrupt(a) == NoAnim

\* What a step that interrupts transition a emits.
Interrupted(a, ask) ==
    IF a.state # "idle" THEN [kind |-> "interrupted", asked |-> ask]
    ELSE NoEvent

\* Fault: the branch of line 92-94 left out.
dragBoundAlways(m) == TRUE

\* mousedown.zoom, the start of d3-zoom's drag, is bound by the effect run
\* of mode m unless m is select (line 92-97); wheel.zoom is bound always.
dragBound(m) == m # "select"

\* d3-zoom's default filter: (!event.ctrlKey || wheel) && !event.button.
zoomFilter(b) == b = 0

\* The last frame of a transition (t = 1) sets its target.
transitionEnd(a) == a.target

(***************************************************************************)
(* Actions.  A state update made in a discrete event (mousedown, mouseup,  *)
(* click) is rendered, and the main effect re-run, before the next event   *)
(* is handled; the update of a mousemove is rendered later (RunEffect).    *)
(* Every run of the main effect empties the svg, rebinds the handlers to   *)
(* the state of that render and fetches the features again.                *)
(***************************************************************************)

\* Dashboard sees no change of lat or lon.
DashboardIdle == UNCHANGED << loads, data, loading >>

\* Dashboard renders with props r: its effect calls loadData when lat or lon
\* changed, which sets loading (Dashboard.tsx line 34, 62).
DashboardSelects(r) ==
    /\ loads' = loadData(loads, sel, r)
    /\ loading' = (loading \/ loadStarts(sel, r))
    /\ data' = dataAfter(data, sel, r)

\* mousedown on the svg at a point of P, on feature f or on none, with
\* mouse button b.  In pan mode d3-zoom's listener comes first: it starts
\* the drag-pan gesture and stops the event when its filter lets the event
\* in, so handleMouseDown runs in select mode and for the events the filter
\* rejects.  Only the primary button is followed by a click event.
MouseDown(P) ==
    \E p \in P, f \in Features \cup {NoFeat}, b \in Buttons :
        LET zooms == dragBound(h.mode) /\ zoomFilter(b)
            arms  == ~zooms /\ handleMouseDownArms(h.mode)
            clickable == IF b = 0 THEN f ELSE NoFeat
        IN  /\ btn = "up"
            /\ nCalls < MaxCalls
            /\ f # NoFeat => feat = "loaded"
            /\ btn' = "down"
            /\ gest' = Gesture(mode, TRUE, f # NoFeat)
            /\ IF arms
               THEN /\ startPoint' = p
                    /\ currentPoint' = p
                    /\ isDrawing' = TRUE
                    /\ h' = Closure(mode, TRUE, p, p)
                    /\ feat' = "pending"
                    /\ overlay' = NoOverlay
                    /\ downFeat' = afterRemove(clickable)
                    /\ projFor' = client
                    /\ mapRoot' = freshRoot(anim, pan)
               ELSE /\ downFeat' = clickable
                    /\ mapRoot' = IF zooms
                                  THEN [mapRoot EXCEPT !.detached = {}]
                                  ELSE mapRoot
                    /\ UNCHANGED << startPoint, currentPoint, isDrawing, h,
                                    feat, overlay, projFor >>
            /\ IF zooms
               THEN /\ pan' = [on |-> TRUE, p0 |-> p,
                               anchor |-> transformInvert(zt, p),
                               moved |-> FALSE]
                    /\ anim' = interrupt(anim)
                    /\ asked' = NoAsk
                    /\ emit' = [Quiet EXCEPT !.anim = Interrupted(anim, asked)]
               ELSE /\ emit' = Quiet
                    /\ UNCHANGED << pan, anim, asked >>
            /\ DashboardIdle
            /\ UNCHANGED << mode, zt, sel, zoomOps, frames, nCalls, client >>

\* mousemove at a point of P: d3-zoom's drag (which stops the event) while
\* its gesture is on, handleMouseMove otherwise.  emit.move.hover is what
\* handleMouseMove passes to setHoverCoords, Null when nothing is passed.
MouseMove(P) ==
    \E p \in P :
        /\ btn # "click"
        /\ IF pan.on
           THEN /\ zoomOps < MaxZoomOps
                /\ zt' = PanTransform(zt, p, pan.anchor)
                /\ pan' = [pan EXCEPT !.moved = @ \/ p # pan.p0]
                /\ zoomOps' = zoomOps + 1
                /\ mapRoot' = zoomed(mapRoot, "drag", zt')
                /\ UNCHANGED currentPoint
           ELSE /\ currentPoint' = IF h.isDrawing THEN p ELSE currentPoint
                /\ UNCHANGED << zt, pan, zoomOps, mapRoot >>
        /\ emit' = [Quiet EXCEPT
                      !.move = [at |-> p,
                                hover |-> IF pan.on THEN Null
                                          ELSE hoverOf(zt, p)]]
        /\ DashboardIdle
        /\ UNCHANGED << mode, isDrawing, startPoint, h, anim, feat, sel,
                        overlay, btn, downFeat, frames, nCalls, asked, gest,
                        client, projFor >>

\* The main effect runs again: after a mousemove's update is rendered, or
\* because Dashboard rendered (its onLocationSelect is a new function on
\* every render, Dashboard.tsx line 136).
RunEffect ==
    /\ btn # "click"
    /\ h' = Closure(mode, isDrawing, startPoint, currentPoint)
    /\ feat' = "pending"
    /\ downFeat' = afterRemove(downFeat)
    /\ overlay' = NoOverlay
    /\ projFor' = client
    /\ mapRoot' = freshRoot(anim, pan)
    /\ emit' = Quiet
    /\ DashboardIdle
    /\ UNCHANGED << mode, isDrawing, startPoint, currentPoint, zt, anim, sel,
                    btn, pan, zoomOps, frames, nCalls, asked, gest, client >>

\* A mouseup reaches the window, ending gesture g.  While d3-zoom's gesture
\* is on, its mouseup handler ends that and stops the event; otherwise
\* handleMouseUp runs, and what it writes is rendered and the main effect
\* re-run at once.  The browser then dispatches click on the mousedown's
\* element if that is still in the document (d3-drag lets the click
\* through only when the pointer did not move).
Release(g) ==
    LET runs  == ~pan.on /\ ~handleMouseUpReturns(h)
        call  == IF runs THEN handleMouseUpCall(h, zt) ELSE Null
        kind  == IF call.bbox = Null THEN "tap" ELSE "drag"
        done  == IF call # Null
                 THEN [g EXCEPT !.calls = Append(@, kind)]
                 ELSE g
        df    == IF runs THEN afterRemove(downFeat) ELSE downFeat
        click == df # NoFeat /\ ~(pan.on /\ pan.moved)
        props == IF call # Null
                 THEN onLocationSelect(sel, call.lat, call.lon, call.bbox)
                 ELSE sel
        after == handleMouseUpClears(
                     Closure(mode, isDrawing, startPoint, currentPoint))
    IN  /\ IF runs
           THEN /\ isDrawing' = after.isDrawing
                /\ startPoint' = after.startPoint
                /\ currentPoint' = after.currentPoint
                /\ h' = after
                /\ feat' = "pending"
                /\ overlay' = IF call # Null THEN afterRender(sel, props)
                              ELSE NoOverlay
                /\ projFor' = client
                /\ mapRoot' = freshRoot(anim, NoPan)
           ELSE /\ mapRoot' = [mapRoot EXCEPT !.detached = @ \ {"drag"}]
                /\ UNCHANGED << isDrawing, startPoint, currentPoint, h, feat,
                                overlay, projFor >>
        /\ sel' = props
        /\ nCalls' = IF call # Null THEN nCalls + 1 ELSE nCalls
        /\ downFeat' = IF click THEN df ELSE NoFeat
        /\ pan' = NoPan
        /\ btn' = IF click THEN "click" ELSE "up"
        /\ gest' = IF click THEN done ELSE NoGest
        /\ emit' = [Quiet EXCEPT !.gesture = IF click THEN Null ELSE done]
        /\ DashboardSelects(props)
        /\ UNCHANGED << mode, zt, anim, zoomOps, frames, asked, client >>

\* mouseup after a mousedown on the svg.
MouseUp ==
    /\ btn = "down"
    /\ Release(gest)

\* A press and release outside the svg (a button, the search box, the
\* page): no handler of the viewport sees the mousedown, handleMouseUp sees
\* the mouseup.
ClickElsewhere ==
    /\ btn = "up"
    /\ Release(Gesture(mode, FALSE, FALSE))

\* click on the path of feature downFeat (line 144-155).
FeatureClick ==
    /\ btn = "click"
    /\ LET call  == clickCall(downFeat)
           props == onLocationSelect(sel, call.lat, call.lon, call.bbox)
       IN  /\ sel' = props
           /\ nCalls' = nCalls + 1
           /\ emit' = [Quiet EXCEPT
                         !.gesture = [gest EXCEPT
                                        !.calls = Append(@, "feature")]]
           /\ anim' = transitionStart(anim, zt, clickTarget(zt, downFeat))
           /\ asked' = [by |-> "recenter", feature |-> downFeat]
           /\ IF props # sel
              THEN \* Dashboard renders, the main effect runs again
                   /\ h' = Closure(mode, isDrawing, startPoint, currentPoint)
                   /\ feat' = "pending"
                   /\ overlay' = afterRender(sel, props)
                   /\ projFor' = client
                   /\ mapRoot' = freshRoot(anim', pan)
              ELSE /\ mapRoot' = [mapRoot EXCEPT
                                    !.detached = @ \ {"transition"}]
                   /\ UNCHANGED << h, feat, overlay, projFor >>
           /\ DashboardSelects(props)
    /\ downFeat' = NoFeat
    /\ btn' = "up"
    /\ gest' = NoGest
    /\ UNCHANGED << mode, isDrawing, startPoint, currentPoint, zt, pan,
                    zoomOps, frames, client >>

\* The mode buttons (line 322-335), by pointer or by keyboard.
SetMode ==
    \E m \in {"select", "pan"} :
        /\ btn # "click"
        /\ m # mode
        /\ mode' = m
        /\ h' = Closure(m, isDrawing, startPoint, currentPoint)
        /\ feat' = "pending"
        /\ downFeat' = afterRemove(downFeat)
        /\ overlay' = NoOverlay
        /\ projFor' = client
        /\ mapRoot' = freshRoot(anim, pan)
        /\ gest' = [gest EXCEPT !.switched = @ \/ btn = "down"]
        /\ emit' = Quiet
        /\ DashboardIdle
        /\ UNCHANGED << isDrawing, startPoint, currentPoint, zt, anim, sel,
                        btn, pan, zoomOps, frames, nCalls, asked, client >>

\* resetZoom (line 278-284).
ResetZoom ==
    /\ btn # "click"
    /\ anim' = transitionStart(anim, zt, zoomIdentity)
    /\ asked' = [by |-> "reset"]
    /\ mapRoot' = [mapRoot EXCEPT !.detached = @ \ {"transition"}]
    /\ emit' = Quiet
    /\ DashboardIdle
    /\ UNCHANGED << mode, isDrawing, startPoint, currentPoint, h, zt, feat,
                    sel, overlay, btn, downFeat, pan, zoomOps, frames, nCalls,
                    gest, client, projFor >>

\* A wheel step at a point of P: bound in both modes (line 89, 94, 96).  A
\* step that leaves the scale where it is does nothing.
Wheel(P) ==
    \E p \in P, dir \in WheelDirs :
        /\ btn # "click"
        /\ zoomOps < MaxZoomOps
        /\ WheelK(zt.k, dir) # zt.k
        /\ zt' = WheelTransform(zt, p, WheelK(zt.k, dir))
        /\ anim' = interrupt(anim)
        /\ asked' = NoAsk
        /\ zoomOps' = zoomOps + 1
        /\ mapRoot' = zoomed([mapRoot EXCEPT !.detached = @ \ {"transition"}],
                             "wheel", zt')
        /\ emit' = [Quiet EXCEPT !.anim = Interrupted(anim, asked)]
        /\ DashboardIdle
        /\ UNCHANGED << mode, isDrawing, startPoint, currentPoint, h, feat,
                        sel, overlay, btn, downFeat, pan, frames, nCalls,
                        gest, client, projFor >>

\* A frame of the transition, at the widest point of its path.
AnimFrame ==
    /\ btn # "click"
    /\ anim.state = "start"
    /\ HasApex(anim.from, anim.target)
    /\ frames < MaxFrames
    /\ zt' = ApexFrame(anim.from, anim.target)
    /\ anim' = [anim EXCEPT !.state = "mid"]
    /\ frames' = frames + 1
    /\ mapRoot' = zoomed(mapRoot, "transition", zt')
    /\ emit' = Quiet
    /\ DashboardIdle
    /\ UNCHANGED << mode, isDrawing, startPoint, currentPoint, h, feat, sel,
                    overlay, btn, downFeat, pan, zoomOps, nCalls, asked,
                    gest, client, projFor >>

\* The last frame of the transition.
AnimEnd ==
    /\ btn # "click"
    /\ anim.state # "idle"
    /\ zt' = transitionEnd(anim)
    /\ anim' = NoAnim
    /\ asked' = NoAsk
    /\ emit' = [Quiet EXCEPT
                  !.anim = [kind |-> "settled", asked |-> asked,
                            over |-> anim.over]]
    /\ mapRoot' = [zoomed(mapRoot, "transition", zt') EXCEPT
                     !.detached = @ \ {"transition"}]
    /\ DashboardIdle
    /\ UNCHANGED << mode, isDrawing, startPoint, currentPoint, h, feat, sel,
                    overlay, btn, downFeat, pan, zoomOps, frames, nCalls,
                    gest, client, projFor >>

\* The fetch of line 100 resolves, the paths are appended and the overlays
\* rendered (line 157).  (A fetch
\* that fails or never resolves leaves the svg without paths: "pending".)
FetchResolve ==
    /\ btn # "click"
    /\ feat = "pending"
    /\ feat' = "loaded"
    /\ overlay' = renderOverlays(sel)
    /\ emit' = Quiet
    /\ DashboardIdle
    /\ UNCHANGED << mode, isDrawing, startPoint, currentPoint, h, zt, anim,
                    sel, btn, downFeat, pan, zoomOps, frames, nCalls, asked,
                    gest, client, projFor, mapRoot >>

\* handleSearch (Dashboard.tsx line 64-71) resolves to r: setLat, setLon,
\* setBbox and setSearchQuery(''), so Dashboard renders, the main effect
\* runs again, and the overlay effect after it when its deps changed.
\* Nothing here calls centerOnCoords.
Search ==
    \E r \in SearchResults :
        /\ btn # "click"
        /\ sel' = r
        /\ h' = Closure(mode, isDrawing, startPoint, currentPoint)
        /\ feat' = "pending"
        /\ downFeat' = afterRemove(downFeat)
        /\ overlay' = afterRender(sel, r)
        /\ projFor' = client
        /\ mapRoot' = freshRoot(anim, pan)
        /\ emit' = Quiet
        /\ DashboardSelects(r)
        /\ UNCHANGED << mode, isDrawing, startPoint, currentPoint, zt, anim,
                        btn, pan, zoomOps, frames, nCalls, asked, gest,
                        client >>

\* The container is measured at another size (the window resized, the
\* layout changed): no handler of the viewport listens for it.
Resize ==
    \E s \in ClientSizes :
        /\ s # client
        /\ client' = s
        /\ emit' = Quiet
        /\ DashboardIdle
        /\ UNCHANGED << mode, isDrawing, startPoint, currentPoint, h, zt,
                        anim, feat, sel, overlay, btn, downFeat, pan, zoomOps,
                        frames, nCalls, asked, gest, projFor, mapRoot >>

\* The fetchers of a loadData call resolve (Dashboard.tsx line 37-47):
\* setData and its like show the stats of that call, whichever selection
\* Dashboard holds by now; the call goes on to await
\* getResearchIntelligence.  Dashboard renders, so the main effect runs
\* again.
LoadStats ==
    \E l \in loads :
        /\ btn # "click"
        /\ l.phase = "fetch"
        /\ loads' = (loads \ {l}) \cup {Load(l.latest, "intel")}
        /\ data' = IF l.latest THEN "latest" ELSE "stale"
        /\ h' = Closure(mode, isDrawing, startPoint, currentPoint)
        /\ feat' = "pending"
        /\ downFeat' = afterRemove(downFeat)
        /\ overlay' = NoOverlay
        /\ projFor' = client
        /\ mapRoot' = freshRoot(anim, pan)
        /\ emit' = Quiet
        /\ UNCHANGED << mode, isDrawing, startPoint, currentPoint, zt, anim,
                        sel, btn, pan, zoomOps, frames, nCalls, asked, gest,
                        client, loading >>

\* getResearchIntelligence of a loadData call resolves (Dashboard.tsx line
\* 50-59): the call ends with setLoading(false), whatever other calls are
\* in flight.  Dashboard renders, so the main effect runs again.
LoadIntel ==
    \E l \in loads :
        /\ btn # "click"
        /\ l.phase = "intel"
        /\ loads' = loads \ {l}
        /\ loading' = FALSE
        /\ h' = Closure(mode, isDrawing, startPoint, currentPoint)
        /\ feat' = "pending"
        /\ downFeat' = afterRemove(downFeat)
        /\ overlay' = NoOverlay
        /\ projFor' = client
        /\ mapRoot' = freshRoot(anim, pan)
        /\ emit' = Quiet
        /\ UNCHANGED << mode, isDrawing, startPoint, currentPoint, zt, anim,
                        sel, btn, pan, zoomOps, frames, nCalls, asked, gest,
                        client, data >>

(***************************************************************************)
(* Specifications                                                          *)
(***************************************************************************)
\* The whole machine: the button pressed at either of two points that are
\* far apart, the pointer moved to one of them (a move that stays where the
\* press was, a move away from it).
SomePts == { Pt(400, 300), Pt(100, 100) }

Next ==
    \/ MouseDown(SomePts)
    \/ ClickElsewhere
    \/ MouseMove({Pt(100, 100)})
    \/ RunEffect
    \/ MouseUp
    \/ FeatureClick
    \/ SetMode
    \/ ResetZoom
    \/ Wheel({extentCentre})
    \/ AnimFrame
    \/ AnimEnd
    \/ FetchResolve

Spec == Init /\ [][Next]_vars

\* The viewport under the scheduling of the browser: the button pressed and
\* released at the centre (a tap, a feature click, the start of a drag-pan,
\* which is what interrupts a transition); a transition that runs is given
\* its last frame (its timer fires), and the click event of a mouseup is
\* dispatched.
NextView ==
    \/ MouseDown({Pt(400, 300)})
    \/ ClickElsewhere
    \/ RunEffect
    \/ MouseUp
    \/ FeatureClick
    \/ SetMode
    \/ ResetZoom
    \/ Wheel({extentCentre})
    \/ AnimFrame
    \/ AnimEnd
    \/ FetchResolve

FairView ==
    Init /\ [][NextView]_vars /\ WF_vars(AnimEnd) /\ WF_vars(FeatureClick)

\* The viewport and its host: the selection written by taps, drags, feature
\* clicks and by a search that may resolve at any time; the wheel left
\* alone, a transition given its last frame only.
NextHost ==
    \/ Search
    \/ MouseDown({Pt(400, 300)})
    \/ ClickElsewhere
    \/ MouseMove({Pt(100, 100)})
    \/ RunEffect
    \/ MouseUp
    \/ FeatureClick
    \/ SetMode
    \/ ResetZoom
    \/ AnimEnd
    \/ FetchResolve

SpecHost == Init /\ [][NextHost]_vars

\* The hover probe: the pointer moved over a grid of the viewport that
\* reaches to one pixel from its edges, the wheel at two points, either
\* mode.
ProbePts ==
    { Pt(x, y) : x \in {1, 100, 400, 700, 799}, y \in {1, 150, 300, 599} }

NextProbe ==
    \/ MouseMove(ProbePts)
    \/ Wheel({extentCentre, Pt(100, 100)})
    \/ SetMode

SpecProbe == Init /\ [][NextProbe]_vars

\* Select mode left on, the pointer on every point of Pts, the wheel at the
\* centre and off it: the gestures the classifier of handleMouseUp sees.
NextSelect ==
    \/ MouseDown(Pts)
    \/ MouseMove(Pts)
    \/ RunEffect
    \/ MouseUp
    \/ Wheel({extentCentre, Pt(100, 100)})

SpecSelect == Init /\ [][NextSelect]_vars

\* The container resized: the steps that measure it or leave the projection
\* unread (a press, a mode switch, a render), the button pressed at points
\* that are inside the container at either size.
ResizePts == { Pt(100, 100), Pt(200, 150), Pt(300, 200), Pt(50, 250) }

NextResize ==
    \/ Resize
    \/ MouseDown(ResizePts)
    \/ RunEffect
    \/ SetMode

SpecResize == Init /\ [][NextResize]_vars

\* Dashboard's loads: the selection changed by a search or by a gesture on
\* the map, the calls of loadData resolving in any order (their fetchers
\* taken to succeed).
NextLoad ==
    \/ Search
    \/ MouseDown(SomePts)
    \/ MouseMove({Pt(100, 100)})
    \/ MouseUp
    \/ LoadStats
    \/ LoadIntel

SpecLoad == Init /\ [][NextLoad]_vars

(***************************************************************************)
(* Properties                                                              *)
(***************************************************************************)

\* C1: the pointer-up that ends a Select-mode session commits, and what it
\* commits is a point selection (bbox = null) exactly when the raw
\* displacement (dx, dy) between the start and end points of the session, as
\* the handler reads them, has dx < 5 and dy < 5, and a region selection
\* (bbox non-null) otherwise, whatever the zoom scale.
C1_TapIffUnderFive ==
    [][ (btn = "down" /\ h.isDrawing /\ btn' # "down") =>
          LET dx == Abs(h.currentPoint.x - h.startPoint.x)
              dy == Abs(h.currentPoint.y - h.startPoint.y)
          IN  /\ nCalls' = nCalls + 1
              /\ (sel'.bbox = Null) <=> (dx < 5 /\ dy < 5) ]_vars

\* A displacement of (4, 6) at scale 2 has committed a region selection.
C1_Witness ==
    /\ nCalls = 1
    /\ btn = "up"
    /\ zt.k = 2 * SU
    /\ sel.bbox # Null
    /\ sel = handleMouseUpCall(
                 Closure("select", TRUE, Pt(400, 300), Pt(404, 306)), zt)

\* C3: the BoundingBox of a committed region selection has latMin <= latMax
\* and lonMin <= lonMax, and is the box of the same two inverted corners
\* taken in the other order.
C3_BboxNormalized ==
    [][ (btn = "down" /\ h.isDrawing /\ nCalls' = nCalls + 1
         /\ sel'.bbox # Null) =>
          LET A == projectionInvert(transformInvert(zt, h.startPoint))
              B == projectionInvert(transformInvert(zt, h.currentPoint))
          IN  /\ sel'.bbox.latMin <= sel'.bbox.latMax
              /\ sel'.bbox.lonMin <= sel'.bbox.lonMax
              /\ sel'.bbox = newBbox(B, A) ]_vars

\* A drag from the south-east corner to the north-west one has committed.
C3_Witness ==
    /\ nCalls = 1
    /\ btn = "up"
    /\ sel.bbox # Null
    /\ sel = handleMouseUpCall(
                 Closure("select", TRUE, Pt(406, 306), Pt(400, 300)), zt)
    /\ sel.bbox.lonMin < sel.bbox.lonMax
    /\ sel.bbox.latMin < sel.bbox.latMax

\* C10: a tap commits the inversion of its end point p under the transform
\* in force at the pointer-up, geoInvert(transformInvert(p)), with
\* bbox = null; in the 800 x 600 viewport at the identity transform a tap at
\* (400, 300) commits (lat, lon) = (0, 0).
C10_TapCommitsInvertedPoint ==
    [][ (btn = "down" /\ h.isDrawing /\ nCalls' = nCalls + 1
         /\ sel'.bbox = Null) =>
          LET g == projectionInvert(transformInvert(zt, h.currentPoint))
          IN  /\ sel' = [lat |-> g.lat, lon |-> g.lon, bbox |-> Null]
              /\ (width = 800 /\ height = 600 /\ zt = zoomIdentity
                  /\ h.currentPoint = Pt(400, 300))
                    => (sel'.lat = 0 /\ sel'.lon = 0) ]_vars

\* The tap at the centre of the viewport, at the identity, has committed
\* (0, 0).
C10_Witness ==
    /\ nCalls = 1
    /\ btn = "up"
    /\ zt = zoomIdentity
    /\ sel = [lat |-> 0, lon |-> 0, bbox |-> Null]

\* C2: a physical gesture (one pointer-down, its moves, its pointer-up and
\* the click the browser derives from it) never calls onLocationSelect more
\* than once; a pointer-down and pointer-up on a rendered feature in Select
\* mode come to one call.
C2_OncePerGesture ==
    /\ Len(gest.calls) <= 1
    /\ emit.gesture # Null => Len(emit.gesture.calls) <= 1

\* A gesture on a feature in Select mode has ended with one call.
C2_Witness ==
    /\ emit.gesture # Null
    /\ emit.gesture.downMode = "select"
    /\ emit.gesture.onFeat
    /\ Len(emit.gesture.calls) = 1
    /\ nCalls = 1

\* C4: a gesture whose pointer-down happened in Explore (pan) mode makes no
\* tap and no drag call, whatever moves and mode switches come before its
\* pointer-up.
C4_ExploreGestureNeverSelects ==
    /\ gest.downMode = "pan" =>
         \A i \in 1..Len(gest.calls) : gest.calls[i] \notin {"tap", "drag"}
    /\ (emit.gesture # Null /\ emit.gesture.downMode = "pan") =>
         \A i \in 1..Len(emit.gesture.calls) :
            emit.gesture.calls[i] \notin {"tap", "drag"}

\* A drag begun on the map in Explore mode, the mode switched to Select on
\* the way, has been released without a call.
C4_Witness ==
    /\ emit.gesture # Null
    /\ emit.gesture.downMode = "pan"
    /\ emit.gesture.onMap
    /\ emit.gesture.switched
    /\ emit.gesture.calls = << >>
    /\ mode = "select"
    /\ zt # zoomIdentity
    /\ nCalls = 0

\* C5: a session armed in Select mode and then met by a mode switch is
\* discarded: the pointer-up that follows makes no call.
C5_SwitchDiscardsSession ==
    (/\ emit.gesture # Null
     /\ emit.gesture.downMode = "select"
     /\ emit.gesture.onMap
     /\ emit.gesture.switched)
        => emit.gesture.calls = << >>

\* C6: the scale of the viewport transform lies in [1, 15] in every state.
C6_ScaleWithinExtent ==
    /\ zt.k >= scaleExtentMin * SU
    /\ zt.k <= scaleExtentMax * SU

\* C9: a gesture whose pointer-down is on a rendered feature is never
\* classified: it makes no tap and no drag call.
C9_FeaturePressNeverClassified ==
    (emit.gesture # Null /\ emit.gesture.onFeat) =>
        \A i \in 1..Len(emit.gesture.calls) :
           emit.gesture.calls[i] \notin {"tap", "drag"}

C11_RegionCommitContent ==
    [][ (/\ btn = "down" /\ h.isDrawing /\ nCalls' = nCalls + 1
         /\ ~(/\ Abs(h.currentPoint.x - h.startPoint.x) < 5
              /\ Abs(h.currentPoint.y - h.startPoint.y) < 5)) =>
          LET A == projectionInvert(transformInvert(zt, h.startPoint))
              B == projectionInvert(transformInvert(zt, h.currentPoint))
              b == sel'.bbox
          IN  /\ b = [lonMin |-> IF A.lon < B.lon THEN A.lon ELSE B.lon,
                      lonMax |-> IF A.lon < B.lon THEN B.lon ELSE A.lon,
                      latMin |-> IF A.lat < B.lat THEN A.lat ELSE B.lat,
                      latMax |-> IF A.lat < B.lat THEN B.lat ELSE A.lat]
              /\ sel'.lat = (b.latMin + b.latMax) \div 2
              /\ sel'.lon = (b.lonMin + b.lonMax) \div 2
              /\ b.latMin <= sel'.lat /\ sel'.lat <= b.latMax
              /\ b.lonMin <= sel'.lon /\ sel'.lon <= b.lonMax ]_vars

\* The drag from (100, 100) to (300, 300) at scale 1 has committed the box
\* of the two inverted corners and its centre.
C11_Witness ==
    /\ nCalls = 1
    /\ btn = "up"
    /\ zt = zoomIdentity
    /\ sel.bbox = [lonMin |-> -(300 * PU), lonMax |-> -(100 * PU),
                   latMin |-> 0, latMax |-> 200 * PU]
    /\ sel.lat = 100 * PU
    /\ sel.lon = -(200 * PU)

C13_HoverProbeDisplayOnly ==
    [][ emit'.move # Null =>
          LET g == projectionInvert(transformInvert(zt, emit'.move.at))
          IN  /\ emit'.move.hover = [lat |-> g.lat, lon |-> g.lon]
              /\ sel' = sel
              /\ zt' = zt
              /\ mode' = mode
              /\ nCalls' = nCalls ]_vars

\* C14: when the host replaces the selection other than through a gesture
\* of the viewport (a search that resolves), the viewport starts a recenter:
\* a transition is then under way whose target centres the new coordinate
\* at the current scale.
C14_ExternalChangeRecenters ==
    [][ (sel' # sel /\ nCalls' = nCalls) =>
          /\ anim'.state = "start"
          /\ anim'.target = centerTarget(sel'.lat, sel'.lon, zt.k) ]_vars

\* C15: the overlay drawn for the selection is, for a non-null bbox, one
\* rectangle spanning project(lonMin, latMax) and project(lonMax, latMin)
\* with width >= 0 and height >= 0, and no marker; for a null bbox, a marker
\* at project(lon, lat) and no rectangle; a rectangle and a marker are never
\* there together.
C15_OverlayDerivation ==
    /\ ~(overlay.rect # Null /\ overlay.marker # Null)
    /\ (overlay.rect # Null \/ overlay.marker # Null) =>
         IF sel.bbox # Null
         THEN LET p1 == Pt((width \div 2) * PU + sel.bbox.lonMin,
                           (height \div 2) * PU - sel.bbox.latMax)
                  p2 == Pt((width \div 2) * PU + sel.bbox.lonMax,
                           (height \div 2) * PU - sel.bbox.latMin)
                  r  == overlay.rect
              IN  /\ overlay.marker = Null
                  /\ r # Null
                  /\ r.width >= 0
                  /\ r.height >= 0
                  /\ {r.x, r.x + r.width} = {p1.x, p2.x}
                  /\ {r.y, r.y + r.height} = {p1.y, p2.y}
         ELSE /\ overlay.rect = Null
              /\ overlay.marker = Pt((width \div 2) * PU + sel.lon,
                                     (height \div 2) * PU - sel.lat)

\* The rectangle of a region whose corners came in the other order (from a
\* search) is drawn with positive width and height.
C15_Witness ==
    /\ sel.bbox # Null
    /\ sel.bbox.lonMin > sel.bbox.lonMax
    /\ sel.bbox.latMin > sel.bbox.latMax
    /\ overlay.rect # Null
    /\ overlay.rect.width > 0
    /\ overlay.rect.height > 0
    /\ overlay.marker = Null

\* C18: from the pointer-down that arms a Select-mode session to the
\* pointer-up that ends it the viewport transform keeps the value it had at
\* the pointer-down.
C18_TransformFixedWhileDrawing ==
    [][ (isDrawing /\ btn = "down" /\ gest.downMode = "select") =>
          zt' = zt ]_vars

\* C19 as stated: while the mode is Select no user zoom or pan input (a
\* wheel step, a drag) changes the viewport transform.
C19_NoUserZoomInSelect ==
    [][ (mode = "select" /\ zoomOps' # zoomOps) => zt' = zt ]_vars

\* C19: drag-to-pan is applied only to gestures begun in Explore mode: no
\* pointer-move of a gesture whose pointer-down came in Select mode changes
\* the viewport transform or counts as a pan; the wheel zooms in both modes.
C19_SelectDragNeverPans ==
    [][ (btn = "down" /\ gest.downMode = "select" /\ emit'.move # Null) =>
          /\ zt' = zt
          /\ zoomOps' = zoomOps
          /\ ~pan.on ]_vars

\* A drag in Select mode has moved the pointer away from its start on a map
\* that the wheel had zoomed; the transform is the wheel's.
C19_Witness ==
    /\ btn = "down"
    /\ gest.downMode = "select"
    /\ isDrawing
    /\ emit.move # Null
    /\ emit.move.at # startPoint
    /\ zt.k = 2 * SU
    /\ mode = "select"

\* C20: the projection and the viewport transform round-trip.  For the
\* pointer at raw point p, with planar point q = transformInvert(p) and
\* coordinate g = invert(q) as handleMouseMove computes them: compose undoes
\* invert, transformApply(q) = p; if q lies strictly inside the viewport,
\* project(g) = q; and if g is in the domain (|lon| <= 180 degrees,
\* |lat| <= 90 degrees), invert(project(g)) = g.
C20_RoundTrip ==
    (emit.move # Null /\ emit.move.hover # Null) =>
        LET p == emit.move.at
            q == transformInvert(zt, p)
            g == emit.move.hover
            c == projectionInvert(projection(g.lon, g.lat))
        IN  /\ zt.k >= scaleExtentMin * SU
            /\ zt.k <= scaleExtentMax * SU
            /\ transformApply(zt, q) = Pt(p.x * PU, p.y * PU)
            /\ (/\ 0 < q.x /\ q.x < width * PU
                /\ 0 < q.y /\ q.y < height * PU) =>
                  projection(g.lon, g.lat) = q
            /\ (Abs(g.lon) <= HalfTurn /\ 2 * Abs(g.lat) <= HalfTurn) =>
                  (c.lon = g.lon /\ c.lat = g.lat)

\* C21: the feature dataset is fetched once between mount and unmount.  The
\* fetch of the mount is the one pending in Init; every later run of the
\* main effect empties the svg and fetches again (line 65, 100), which is
\* the only way the features go from loaded back to pending.  So the claim
\* says: once the features are loaded, no step makes them pending again.
C21_FetchedOnce ==
    [][feat = "loaded" => feat' = "loaded"]_vars

\* C22: the projection parameters are fixed at mount: whatever the container
\* is measured at later, the projection stays the one built from the size
\* of the mount.
C22_ProjectionFixedAtMount ==
    projFor = [w |-> width, h |-> height]

\* C23: every selection that holds a bbox holds a normalized one, however it
\* was written: latMin <= latMax and lonMin <= lonMax.
C23_SelectionBboxNormalized ==
    sel.bbox # Null =>
        /\ sel.bbox.latMin <= sel.bbox.latMax
        /\ sel.bbox.lonMin <= sel.bbox.lonMax

\* C24: once rendering has settled (the handlers are bound to the state
\* that is current), the overlay is the one of the selection: the rectangle
\* and no marker for a bbox, the marker and no rectangle otherwise, whether
\* the fetch of the features is pending, resolved or failed.
C24_OverlayFollowsSelection ==
    h = Closure(mode, isDrawing, startPoint, currentPoint) =>
        IF sel.bbox # Null
        THEN overlay.rect # Null /\ overlay.marker = Null
        ELSE overlay.marker # Null /\ overlay.rect = Null

\* C25: the start corner is fixed at pointer-down: from the arming
\* pointer-down to the pointer-up, the start corner a pointer-up commits
\* (the inversion of the stored pointer-down pixel, as handleMouseUp takes
\* it) stays what it was, whatever becomes of the transform of the svg.
C25_StartCornerFixedAtDown ==
    [][ (isDrawing /\ isDrawing' /\ startPoint' = startPoint) =>
          projectionInvert(transformInvert(zt', startPoint'))
              = projectionInvert(transformInvert(zt, startPoint)) ]_vars

\* C27: every pointer-up that follows a pointer-down in Select mode ends the
\* session (Idle, start and current point cleared) and commits by the
\* position the pointer has at pointer-up, the one of its last move
\* (currentPoint), whether or not the handlers were rebound since that move:
\* a tap commits the inversion of that position, a drag a bbox with the
\* inversion of that position as a corner.
C27_PointerUpCommitsAtPointer ==
    [][ (btn = "down" /\ btn' # "down" /\ isDrawing) =>
          LET e   == projectionInvert(transformInvert(zt, currentPoint))
              tap == /\ Abs(currentPoint.x - startPoint.x) < 5
                     /\ Abs(currentPoint.y - startPoint.y) < 5
          IN  /\ ~isDrawing'
              /\ startPoint' = Null
              /\ currentPoint' = Null
              /\ nCalls' = nCalls + 1
              /\ IF tap
                 THEN sel' = [lat |-> e.lat, lon |-> e.lon, bbox |-> Null]
                 ELSE /\ sel'.bbox # Null
                      /\ e.lon \in {sel'.bbox.lonMin, sel'.bbox.lonMax}
                      /\ e.lat \in {sel'.bbox.latMin, sel'.bbox.latMax} ]_vars

\* C28: the displayed transform is the logical one: once rendering has
\* settled, no transition runs and no drag is under way, the transform
\* attribute of the map-root group (under which the map and the overlays
\* are drawn) equals the zoom transform of the svg (by which pointer
\* positions are inverted).
C28_DrawnUnderLogicalTransform ==
    (/\ h = Closure(mode, isDrawing, startPoint, currentPoint)
     /\ anim.state = "idle"
     /\ ~pan.on) =>
        mapRoot.transform = zt

\* C29: a selection callback comes only from a gesture begun on the map: a
\* pointer-up that ends a gesture whose pointer-down was not on the map in
\* Select mode (a press elsewhere in the window, a press on the map in
\* Explore mode) has made no tap or drag call of onLocationSelect.
C29_CallbackOnlyFromMapGesture ==
    (/\ emit.gesture # Null
     /\ ~(emit.gesture.onMap /\ emit.gesture.downMode = "select")) =>
        \A i \in 1..Len(emit.gesture.calls) :
            emit.gesture.calls[i] \notin {"tap", "drag"}

\* After a selection was committed on the map, a press and release
\* elsewhere in the window reached handleMouseUp and called nothing.
C29_Witness ==
    /\ emit.gesture # Null
    /\ ~emit.gesture.onMap
    /\ emit.gesture.calls = << >>
    /\ nCalls = 1
    /\ sel.bbox # Null

\* C30: the displayed data follow the latest selection: while any loadData
\* call is in flight the loading flag is set, and once all calls have
\* finished the stats shown are those of the call made for the lat and lon
\* Dashboard holds.
C30_DataFollowLatestSelection ==
    /\ loads # {} => loading
    /\ (loads = {} /\ data # "none") => data = "latest"

=============================================================================
